---- MODULE Spec2Model ----
(***************************************************************************)
(* Model of the useFetch hook (src/useFetch.ts).                           *)
(*                                                                         *)
(* The eight useState cells are the variables data .. isFetchingMore.      *)
(* A handler of the hook runs to completion inside one React batch: the    *)
(* state setters it calls are queued, the component re-renders once, and   *)
(* the passive effects of that render run.  A handler is therefore a pure  *)
(* operator from the pending state record s to the next pending state      *)
(* record; what the handler reads through its closure (data, page,         *)
(* hasNextPage of the render that created it) is read from the variables,  *)
(* never from s.  Commit installs the record as the next render and runs   *)
(* the error-reset effect of lines 90-92.                                  *)
(*                                                                         *)
(* fetchData suspends at `await serviceFn({page})`: the part before the    *)
(* await is fetchData, the part after it is fetchDataSettled, and the      *)
(* suspended call (its arguments and the data it closed over) is an entry  *)
(* of inflight.  State updates made after an await are batched as well     *)
(* (automatic batching of React 18).                                       *)
(*                                                                         *)
(* props holds the two options that decide the control flow (is there a    *)
(* serviceFn, is there a dataExtractor); initialData and shouldFetch are   *)
(* read once, in Init and in Mount.  phase follows the host component      *)
(* (constructed, mounted, unmounted).  calls counts the calls made by the  *)
(* caller and last records the step that produced the state: the handler   *)
(* that ran and, for a settled call, its place in inflight and its outcome, *)
(* and for a handler of the caller the mutations it called.                *)
(* loadedPage is the page argument of the fetchData call that succeeded    *)
(* last (1 before any has).                                                *)
(***************************************************************************)
EXTENDS Integers, Sequences, FiniteSets, TLC

VARIABLES props, phase, data, page, hasNextPage, totalResults, error,
          isFetching, isRefreshing, isFetchingMore, inflight, calls, last,
          loadedPage

vars == <<props, phase, data, page, hasNextPage, totalResults, error,
          isFetching, isRefreshing, isFetchingMore, inflight, calls, last,
          loadedPage>>

\* ---------------------------------------------------------------- bounds
MaxLen == 2
MaxPage == 2
MaxCalls == 2
MaxBatch == 2

\* ------------------------------------------------- optional values (T | null)
Null == {}
Some(v) == {v}
\* a ?? b
Nullish(opt, default) == IF opt = Null THEN default ELSE CHOOSE v \in opt : TRUE

\* ------------------------------------------------------------ value universe
Ids == {1, 2}
Items == [id : Ids, g : {"a"}]
DataLists == UNION {[1..n -> Items] : n \in 0..MaxLen}
InitialDatas == {<<>>, <<[id |-> 1, g |-> "a"]>>}
NewDatas == {<<[id |-> 2, g |-> "a"]>>}
\* the objects updateExistingData is given to spread over an item
Patches == {[g |-> "b"], [id |-> 2]}
\* (matchKey, matchId) pairs given to updateExistingDataWithKey
Matches == {<<"id", 1>>, <<"g", "a">>}
Messages == {"timeout"}
FallbackMessage == "An error occurred"

\* the value an ExtractedData (or a raw response read through `.data`) carries
NoBody == [data |-> Null, totalResults |-> Null, currentPage |-> Null, totalPages |-> Null]
\* (an extractor reports totalResults and totalPages together or not at all)
ExtractedData ==
  {b \in [data : {Null} \cup {Some(d) : d \in NewDatas},
          totalResults : {Null, Some(1)},
          currentPage : {Null, Some(1), Some(2)},
          totalPages : {Null, Some(2), Some(3)}] :
     (b.totalResults = Null) <=> (b.totalPages = Null)}
ServiceResponse ==
  [data : {Null} \cup {Some(d) : d \in NewDatas},
   totalResults : {Null}, currentPage : {Null}, totalPages : {Null}]

\* how the awaited call ends: serviceFn resolves, serviceFn rejects, or
\* serviceFn resolves and dataExtractor throws
Outcomes(hasExtractor) ==
  {[kind |-> "resolve", message |-> Null, body |-> b] :
      b \in IF hasExtractor THEN ExtractedData ELSE ServiceResponse}
  \cup {[kind |-> k, message |-> m, body |-> NoBody] :
      k \in IF hasExtractor THEN {"reject", "throw"} ELSE {"reject"},
      m \in {Null} \cup {Some(x) : x \in Messages}}
NoOutcome == [kind |-> "none", message |-> Null, body |-> NoBody]

\* ------------------------------------------------------------ pending state
Cur ==
  [data |-> data, page |-> page, hasNextPage |-> hasNextPage,
   totalResults |-> totalResults, error |-> error,
   isFetching |-> isFetching, isRefreshing |-> isRefreshing,
   isFetchingMore |-> isFetchingMore, inflight |-> inflight]

Loading(s) == s.isFetching \/ s.isRefreshing \/ s.isFetchingMore

\* useEffect(() => { if (isFetching || isRefreshing || isFetchingMore)
\*   setError(null) }, [isFetching, isRefreshing, isFetchingMore])
\* runs after a render in which one of its dependencies changed
errorResetEffect(s) ==
  IF <<s.isFetching, s.isRefreshing, s.isFetchingMore>>
       # <<isFetching, isRefreshing, isFetchingMore>> /\ Loading(s)
  THEN [s EXCEPT !.error = Null]
  ELSE s

\* ------------------------------------------------------------------ handlers
\* fetchData with the reset of data done for every call that is not an
\* append, a refresh included
fetchDataResetsOnRefresh(s, refresh, p, more) ==
  IF ~props.serviceFn THEN s
  ELSE LET s1 == IF ~more
                 THEN [s EXCEPT !.isFetching = ~refresh \/ @, !.data = <<>>]
                 ELSE s
           s2 == IF ~more THEN [s1 EXCEPT !.page = 1] ELSE s1
           s3 == IF refresh THEN [s2 EXCEPT !.isRefreshing = TRUE] ELSE s2
       IN [s3 EXCEPT !.inflight =
             Append(@, [refresh |-> refresh, page |-> p, more |-> more, data |-> data])]

\* fetchData with the initial load setting its flag but leaving data as it is
fetchDataKeepsItems(s, refresh, p, more) ==
  IF ~props.serviceFn THEN s
  ELSE LET s1 == IF ~refresh /\ ~more
                 THEN [s EXCEPT !.isFetching = TRUE]
                 ELSE s
           s2 == IF ~more THEN [s1 EXCEPT !.page = 1] ELSE s1
           s3 == IF refresh THEN [s2 EXCEPT !.isRefreshing = TRUE] ELSE s2
       IN [s3 EXCEPT !.inflight =
             Append(@, [refresh |-> refresh, page |-> p, more |-> more, data |-> data])]

\* fetchData up to `await serviceFn({page})`; the closure's data goes with
\* the suspended call because _setExtractedData reads it after the await
fetchData(s, refresh, p, more) ==
  IF ~props.serviceFn THEN s
  ELSE LET s1 == IF ~refresh /\ ~more
                 THEN [s EXCEPT !.isFetching = TRUE, !.data = <<>>]
                 ELSE s
           s2 == IF ~more THEN [s1 EXCEPT !.page = 1] ELSE s1
           s3 == IF refresh THEN [s2 EXCEPT !.isRefreshing = TRUE] ELSE s2
       IN [s3 EXCEPT !.inflight =
             Append(@, [refresh |-> refresh, page |-> p, more |-> more, data |-> data])]

\* _setExtractedData appending whatever currentPage is
setExtractedDataAlwaysAppends(s, closureData, body) ==
  IF props.dataExtractor
  THEN LET newData == Nullish(body.data, <<>>)
           total == Nullish(body.totalResults, 0)
           currentPage == Nullish(body.currentPage, 1)
           totalPages == Nullish(body.totalPages, 1)
       IN [s EXCEPT !.totalResults = Some(total),
                    !.hasNextPage = totalPages > currentPage,
                    !.data = closureData \o newData]
  ELSE LET newData == Nullish(body.data, <<>>)
       IN [s EXCEPT !.data = closureData \o newData]

\* _setExtractedData comparing the pages with >= in place of >
setExtractedDataHasNextOnLastPage(s, closureData, body) ==
  IF props.dataExtractor
  THEN LET newData == Nullish(body.data, <<>>)
           total == Nullish(body.totalResults, 0)
           currentPage == Nullish(body.currentPage, 1)
           totalPages == Nullish(body.totalPages, 1)
       IN [s EXCEPT !.totalResults = Some(total),
                    !.hasNextPage = totalPages >= currentPage,
                    !.data = IF currentPage > 1 THEN closureData \o newData ELSE newData]
  ELSE LET newData == Nullish(body.data, <<>>)
       IN [s EXCEPT !.data = closureData \o newData]

\* _setExtractedData(response); closureData is the `data` of the render
\* that created the fetchData call which is now resuming
setExtractedData(s, closureData, body) ==
  IF props.dataExtractor
  THEN LET newData == Nullish(body.data, <<>>)
           total == Nullish(body.totalResults, 0)
           currentPage == Nullish(body.currentPage, 1)
           totalPages == Nullish(body.totalPages, 1)
       IN [s EXCEPT !.totalResults = Some(total),
                    !.hasNextPage = totalPages > currentPage,
                    !.data = IF currentPage > 1 THEN closureData \o newData ELSE newData]
  ELSE LET newData == Nullish(body.data, <<>>)
       IN [s EXCEPT !.data = closureData \o newData]

\* the message replaced by the fixed text whether or not err.message is set
errorMessageAlwaysFallback(outcome) == FallbackMessage

\* err.message || 'An error occurred'
errorMessage(outcome) == Nullish(outcome.message, FallbackMessage)

\* the argument onError is called with when the awaited call ends with
\* outcome, Null when it is not called; onError tells whether the caller
\* passed the callback
onErrorCall(onError, outcome) ==
  IF outcome.kind \in {"reject", "throw"} /\ onError
  THEN Some(errorMessage(outcome))
  ELSE Null

\* fetchData from the await on, its catch block resetting data as well
fetchDataSettledClearsData(s, load, outcome) ==
  LET s1 == IF outcome.kind = "resolve"
            THEN [setExtractedData(s, load.data, outcome.body) EXCEPT !.page = load.page]
            ELSE [s EXCEPT !.error = Some(errorMessage(outcome)), !.data = <<>>]
  IN [s1 EXCEPT !.isFetching = FALSE, !.isRefreshing = FALSE, !.isFetchingMore = FALSE]

\* fetchData from the await on, its finally block leaving isRefreshing alone
fetchDataSettledKeepsRefreshing(s, load, outcome) ==
  LET s1 == IF outcome.kind = "resolve"
            THEN [setExtractedData(s, load.data, outcome.body) EXCEPT !.page = load.page]
            ELSE [s EXCEPT !.error = Some(errorMessage(outcome))]
  IN [s1 EXCEPT !.isFetching = FALSE, !.isFetchingMore = FALSE]

\* fetchData from the await on, the result appended to the data of the
\* moment the call settles (a functional update)
fetchDataSettledAppendsToCurrent(s, load, outcome) ==
  LET s1 == IF outcome.kind = "resolve"
            THEN [setExtractedData(s, s.data, outcome.body) EXCEPT !.page = load.page]
            ELSE [s EXCEPT !.error = Some(errorMessage(outcome))]
  IN [s1 EXCEPT !.isFetching = FALSE, !.isRefreshing = FALSE, !.isFetchingMore = FALSE]

\* fetchData from the await on: try / catch / finally
fetchDataSettled(s, load, outcome) ==
  LET s1 == IF outcome.kind = "resolve"
            THEN [setExtractedData(s, load.data, outcome.body) EXCEPT !.page = load.page]
            ELSE [s EXCEPT !.error = Some(errorMessage(outcome))]
  IN [s1 EXCEPT !.isFetching = FALSE, !.isRefreshing = FALSE, !.isFetchingMore = FALSE]

refetchData(s, value) == fetchData(s, value, 1, FALSE)

\* fetchNextPage asking for the page it already has
fetchNextPageSamePage(s) ==
  IF hasNextPage
  THEN fetchData([s EXCEPT !.isFetchingMore = TRUE], FALSE, page, TRUE)
  ELSE s

fetchNextPage(s) ==
  IF hasNextPage
  THEN fetchData([s EXCEPT !.isFetchingMore = TRUE], FALSE, page + 1, TRUE)
  ELSE s

\* actions.setData
setData(s, newData) ==
  [s EXCEPT !.data = newData, !.isFetching = FALSE, !.isRefreshing = FALSE,
            !.isFetchingMore = FALSE]

addNewData(s, newData) == [s EXCEPT !.data = <<newData>> \o @]

deleteExistingData(s, id) ==
  [s EXCEPT !.data = SelectSeq(@, LAMBDA obj : obj.id # id)]

\* {...obj, ...newData}
Merge(obj, newData) ==
  [k \in DOMAIN obj \cup DOMAIN newData |->
     IF k \in DOMAIN newData THEN newData[k] ELSE obj[k]]

\* updateExistingData spreading newData over every item with the id
updateExistingDataAllMatches(s, id, newData) ==
  LET hits == {k \in 1..Len(data) : data[k].id = id}
  IN IF hits = {}
     THEN s
     ELSE [s EXCEPT !.data = [k \in 1..Len(data) |->
                                IF k \in hits THEN Merge(data[k], newData) ELSE data[k]]]

\* updateExistingData reads the data of its closure (findIndex, clone) and
\* queues the clone as the new value
updateExistingData(s, id, newData) ==
  LET hits == {k \in 1..Len(data) : data[k].id = id}
  IN IF hits = {}
     THEN s
     ELSE LET index == CHOOSE k \in hits : \A j \in hits : k <= j
              updatedClone == [data EXCEPT ![index] = Merge(data[index], newData)]
          IN [s EXCEPT !.data = updatedClone]

updateExistingDataWithKey(s, matchId, keyToUpdate, newValue, matchKey) ==
  LET prevData == s.data
  IN [s EXCEPT !.data = [k \in 1..Len(prevData) |->
                           IF prevData[k][matchKey] = matchId
                           THEN Merge(prevData[k], [x \in {keyToUpdate} |-> newValue])
                           ELSE prevData[k]]]

\* the calls of the mutations object a handler of the caller can make, as
\* <<name, arguments>> (matchKey is put before matchId)
MutationCalls ==
  {<<"addNewData", x>> : x \in Items}
  \cup {<<"updateExistingData", id, newData>> : id \in Ids, newData \in Patches}
  \cup {<<"updateExistingDataWithKey", m[1], m[2], "g", "b">> : m \in Matches}
  \cup {<<"deleteExistingData", id>> : id \in Ids}

mutation(s, c) ==
  CASE c[1] = "addNewData" -> addNewData(s, c[2])
    [] c[1] = "updateExistingData" -> updateExistingData(s, c[2], c[3])
    [] c[1] = "updateExistingDataWithKey" ->
         updateExistingDataWithKey(s, c[3], c[4], c[5], c[2])
    [] c[1] = "deleteExistingData" -> deleteExistingData(s, c[2])

\* the calls of batch made one after another by one handler of the caller,
\* no render in between
RECURSIVE mutations(_, _)
mutations(s, batch) ==
  IF batch = <<>> THEN s ELSE mutations(mutation(s, Head(batch)), Tail(batch))

\* ------------------------------------------------------------------- actions
\* the next render: the queued updates are applied, then the effect runs
CommitBatch(s, op, edit, i, outcome, batch) ==
  LET r == errorResetEffect(s)
  IN /\ data' = r.data
     /\ page' = r.page
     /\ hasNextPage' = r.hasNextPage
     /\ totalResults' = r.totalResults
     /\ error' = r.error
     /\ isFetching' = r.isFetching
     /\ isRefreshing' = r.isRefreshing
     /\ isFetchingMore' = r.isFetchingMore
     /\ inflight' = r.inflight
     /\ calls' = calls + Len(batch)
                  + IF edit \/ Len(r.inflight) > Len(inflight) THEN 1 ELSE 0
     /\ last' = [op |-> op, i |-> i, outcome |-> outcome, batch |-> batch]
     /\ loadedPage' = IF op = "settle" /\ outcome.kind = "resolve"
                      THEN inflight[i].page
                      ELSE loadedPage

Commit(s, op, edit, i, outcome) == CommitBatch(s, op, edit, i, outcome, <<>>)

\* calls counts the fetchData calls that reached the await and the calls of
\* the field setters and of the mutations
Room == ~props.serviceFn \/ calls < MaxCalls

Init ==
  /\ props \in [serviceFn : BOOLEAN, dataExtractor : BOOLEAN]
  /\ phase = "constructed"
  /\ data \in InitialDatas
  /\ page = 1
  /\ hasNextPage = FALSE
  /\ totalResults = Null
  /\ error = Null
  /\ isFetching = FALSE
  /\ isRefreshing = FALSE
  /\ isFetchingMore = FALSE
  /\ inflight = <<>>
  /\ calls = 0
  /\ last = [op |-> "init", i |-> 0, outcome |-> NoOutcome, batch |-> <<>>]
  /\ loadedPage = 1

\* useEffect(() => { if (!shouldFetch) return; else fetchData() }, [])
Mount ==
  /\ phase = "constructed"
  /\ phase' = "mounted"
  /\ \E shouldFetch \in BOOLEAN :
       LET s == IF shouldFetch THEN fetchData(Cur, FALSE, 1, FALSE) ELSE Cur
       IN Commit(s, "mount", FALSE, 0, NoOutcome)
  /\ UNCHANGED props

Unmount ==
  /\ phase = "mounted"
  /\ phase' = "unmounted"
  /\ last' = [op |-> "unmount", i |-> 0, outcome |-> NoOutcome, batch |-> <<>>]
  /\ UNCHANGED <<props, data, page, hasNextPage, totalResults, error,
                 isFetching, isRefreshing, isFetchingMore, inflight, calls,
                 loadedPage>>

FetchData ==
  /\ phase = "mounted"
  /\ Room
  /\ \E refresh \in BOOLEAN, p \in 1..MaxPage, more \in BOOLEAN :
       LET s == fetchData(Cur, refresh, p, more)
       IN Commit(s, "fetchData", FALSE, 0, NoOutcome)
  /\ UNCHANGED <<props, phase>>

RefetchData ==
  /\ phase = "mounted"
  /\ Room
  /\ LET s == refetchData(Cur, TRUE)
     IN Commit(s, "refetchData", FALSE, 0, NoOutcome)
  /\ UNCHANGED <<props, phase>>

FetchNextPage ==
  /\ phase = "mounted"
  /\ Room
  /\ ~hasNextPage \/ page < MaxPage
  /\ LET s == fetchNextPage(Cur)
     IN Commit(s, "fetchNextPage", FALSE, 0, NoOutcome)
  /\ UNCHANGED <<props, phase>>

\* the awaited serviceFn call of the i-th suspended fetchData settles
Settle ==
  /\ phase \in {"mounted", "unmounted"}
  /\ \E i \in 1..Len(inflight), outcome \in Outcomes(props.dataExtractor) :
       LET load == inflight[i]
           rest == [j \in 1..(Len(inflight) - 1) |->
                      IF j < i THEN inflight[j] ELSE inflight[j + 1]]
           s == fetchDataSettled([Cur EXCEPT !.inflight = rest], load, outcome)
       IN /\ Len(s.data) <= MaxLen
          /\ Commit(s, "settle", FALSE, i, outcome)
  /\ UNCHANGED <<props, phase>>

SetData ==
  /\ phase = "mounted"
  /\ calls < MaxCalls
  /\ \E d \in InitialDatas \cup NewDatas :
       Commit(setData(Cur, d), "setData", TRUE, 0, NoOutcome)
  /\ UNCHANGED <<props, phase>>

SetError ==
  /\ phase = "mounted"
  /\ calls < MaxCalls
  /\ \E e \in {Null} \cup {Some(m) : m \in Messages} :
       Commit([Cur EXCEPT !.error = e], "setError", TRUE, 0, NoOutcome)
  /\ UNCHANGED <<props, phase>>

SetPage ==
  /\ phase = "mounted"
  /\ calls < MaxCalls
  /\ \E p \in 1..MaxPage : Commit([Cur EXCEPT !.page = p], "setPage", TRUE, 0, NoOutcome)
  /\ UNCHANGED <<props, phase>>

SetHasNextPage ==
  /\ phase = "mounted"
  /\ calls < MaxCalls
  /\ \E b \in BOOLEAN :
       Commit([Cur EXCEPT !.hasNextPage = b], "setHasNextPage", TRUE, 0, NoOutcome)
  /\ UNCHANGED <<props, phase>>

SetTotalResults ==
  /\ phase = "mounted"
  /\ calls < MaxCalls
  /\ \E t \in {Null, Some(0), Some(1)} :
       Commit([Cur EXCEPT !.totalResults = t], "setTotalResults", TRUE, 0, NoOutcome)
  /\ UNCHANGED <<props, phase>>

SetIsFetching ==
  /\ phase = "mounted"
  /\ calls < MaxCalls
  /\ \E b \in BOOLEAN :
       Commit([Cur EXCEPT !.isFetching = b], "setIsFetching", TRUE, 0, NoOutcome)
  /\ UNCHANGED <<props, phase>>

SetIsRefreshing ==
  /\ phase = "mounted"
  /\ calls < MaxCalls
  /\ \E b \in BOOLEAN :
       Commit([Cur EXCEPT !.isRefreshing = b], "setIsRefreshing", TRUE, 0, NoOutcome)
  /\ UNCHANGED <<props, phase>>

SetIsFetchingMore ==
  /\ phase = "mounted"
  /\ calls < MaxCalls
  /\ \E b \in BOOLEAN :
       Commit([Cur EXCEPT !.isFetchingMore = b], "setIsFetchingMore", TRUE, 0, NoOutcome)
  /\ UNCHANGED <<props, phase>>

AddNewData ==
  /\ phase = "mounted"
  /\ calls < MaxCalls
  /\ Len(data) < MaxLen
  /\ \E x \in Items : Commit(addNewData(Cur, x), "addNewData", TRUE, 0, NoOutcome)
  /\ UNCHANGED <<props, phase>>

DeleteExistingData ==
  /\ phase = "mounted"
  /\ calls < MaxCalls
  /\ \E id \in Ids :
       Commit(deleteExistingData(Cur, id), "deleteExistingData", TRUE, 0, NoOutcome)
  /\ UNCHANGED <<props, phase>>

\* a handler of the caller that calls one to MaxBatch mutations in a row
Batches == UNION {[1..n -> MutationCalls] : n \in 1..MaxBatch}

Mutate ==
  /\ phase = "mounted"
  /\ \E batch \in Batches :
       LET s == mutations(Cur, batch)
       IN /\ calls + Len(batch) <= MaxCalls
          /\ Len(s.data) <= MaxLen
          /\ CommitBatch(s, "mutate", FALSE, 0, NoOutcome, batch)
  /\ UNCHANGED <<props, phase>>

\* the lifecycle, the query group and the mutation group
NextHandlers ==
  \/ Mount
  \/ Unmount
  \/ FetchData
  \/ RefetchData
  \/ FetchNextPage
  \/ Settle
  \/ AddNewData
  \/ DeleteExistingData

\* the field setters of the returned actions object
NextSetters ==
  \/ SetData
  \/ SetError
  \/ SetPage
  \/ SetHasNextPage
  \/ SetTotalResults
  \/ SetIsFetching
  \/ SetIsRefreshing
  \/ SetIsFetchingMore

Next == NextHandlers \/ NextSetters

Spec == Init /\ [][Next]_vars

\* the hook driven through its handlers only, the field setters left unused
SpecHandlers == Init /\ [][NextHandlers]_vars

\* the mutations called by the handlers of the caller, a load of the mount
\* effect in flight or settled
NextMutations ==
  \/ Mount
  \/ Settle
  \/ Mutate

SpecMutations == Init /\ [][NextMutations]_vars

\* ------------------------------------------------------- reading the last step
Settled == last.op = "settle"
Resolved == Settled /\ last.outcome.kind = "resolve"
Failed == Settled /\ last.outcome.kind \in {"reject", "throw"}
Extracted == Resolved /\ props.dataExtractor
NewData == Nullish(last.outcome.body.data, <<>>)
CurrentPage == Nullish(last.outcome.body.currentPage, 1)
TotalPages == Nullish(last.outcome.body.totalPages, 1)
NoneLoading == ~isFetching /\ ~isRefreshing /\ ~isFetchingMore
\* true of a step in which a fetchData call reached its await
Started == Len(inflight') = Len(inflight) + 1
fields == <<data, page, hasNextPage, totalResults, error,
            isFetching, isRefreshing, isFetchingMore>>

\* the arguments and the closure of the fetchData call suspended last
NewLoad == inflight[Len(inflight)]

\* ---------------------------------------------------------------- claims
\* C1: in every reachable state at most one of isFetching, isRefreshing and
\* isFetchingMore is true, whatever the interleaving of fetchData,
\* refetchData and fetchNextPage calls.
C1_AtMostOneLoadingFlag ==
  /\ ~(isFetching /\ isRefreshing)
  /\ ~(isFetching /\ isFetchingMore)
  /\ ~(isRefreshing /\ isFetchingMore)

\* C2 as stated: when a load fails, data after its completion equals the
\* data the hook held when that load was invoked (the data of the closure of
\* the fetchData call).
C2_FailedLoadRestoresItems ==
  [][Failed' => data' = inflight[last'.i].data]_vars

\* C2 as amended: the completion of a failed load leaves data as it was
\* just before the awaited call settled; a refresh or an append load leaves
\* data alone when it starts, and an initial load has emptied data when it
\* starts, which a failure does not undo.
C2_FailedLoadKeepsItems ==
  [][/\ Failed' => data' = data
     /\ Started /\ (NewLoad'.refresh \/ NewLoad'.more) => data' = data
     /\ Started /\ ~NewLoad'.refresh /\ ~NewLoad'.more => data' = <<>>]_vars

C2_Witness == Failed /\ data # <<>>

\* C3: without a serviceFn each of fetchData, refetchData and fetchNextPage
\* leaves data, page, hasNextPage, totalResults, error and the three loading
\* flags unchanged, from every state the field setters can reach.
C3_NoServiceFnNoOp ==
  [][~props.serviceFn /\ last'.op \in {"fetchData", "refetchData", "fetchNextPage"}
       => fields' = fields]_vars

\* C4: in the state produced by the completion of a load, by success or by
\* failure, isFetching, isRefreshing and isFetchingMore are all false.
C4_SettledClearsFlags == Settled => NoneLoading

C4_Witness == Failed /\ NoneLoading /\ inflight # <<>>

\* C5: starting a load while error is non-null, whatever the refresh, page
\* and more arguments, leaves error null once the call has reached its await.
C5_StartClearsError ==
  [][Started /\ error # Null => error' = Null]_vars

\* C6: once the component is unmounted, a load that settles changes no field
\* of the hook and hands no result on (an onError callback is not called).
C6_UnmountedSettleSuppressed ==
  [][phase = "unmounted"
       => fields' = fields /\ onErrorCall(TRUE, last'.outcome) = Null]_vars

\* C7 as stated: when refetchData() has started, data is empty, isRefreshing
\* is true and isFetching is as it was.
C7_RefreshClearsItems ==
  [][last'.op = "refetchData" /\ Started
       => data' = <<>> /\ isRefreshing' /\ isFetching' = isFetching]_vars

\* C7 as amended: when refetchData() has started, data is unchanged (a
\* refresh does not reset it), page is 1, isRefreshing is true and
\* isFetching is as it was.
C7_RefreshKeepsItems ==
  [][last'.op = "refetchData" /\ Started
       => data' = data /\ page' = 1 /\ isRefreshing' /\ isFetching' = isFetching]_vars

C7_Witness ==
  last.op = "refetchData" /\ inflight # <<>> /\ isRefreshing /\ ~isFetching /\ data # <<>>

\* C8: when a load succeeds and dataExtractor reports currentPage > 1, data
\* becomes the data held just before the result was applied followed by the
\* extracted items.
C8_AppendsToCurrentItems ==
  [][Extracted' /\ CurrentPage' > 1 => data' = data \o NewData']_vars

\* C9: when a load succeeds and dataExtractor reports currentPage <= 1 (or
\* no currentPage), data is exactly the extracted items.
C9_ReplaceOnFirstPage == Extracted /\ CurrentPage <= 1 => data = NewData

C9_Witness == Extracted /\ CurrentPage <= 1 /\ NewData # <<>> /\ data = NewData

\* C10: hasNextPage is false at construction; a successful load with a
\* dataExtractor sets it to totalPages > currentPage, either defaulting to 1,
\* and no other step changes it but the setHasNextPage setter.
C10_HasNextPageDerivation ==
  /\ hasNextPage = FALSE
  /\ [][IF Extracted'
        THEN hasNextPage' = (TotalPages' > CurrentPage')
        ELSE last'.op = "setHasNextPage" \/ hasNextPage' = hasNextPage]_vars

C10_Witness ==
  /\ Extracted
  /\ last.outcome.body.currentPage = Some(2)
  /\ last.outcome.body.totalPages = Some(3)
  /\ hasNextPage

\* C11: without a dataExtractor, when a load succeeds data becomes the data
\* held just before the result was applied followed by the response's data
\* (nothing when the response has none), and hasNextPage and totalResults
\* stay as they were.
C11_PlainLoadAppends ==
  [][Resolved' /\ ~props.dataExtractor
       => /\ data' = data \o NewData'
          /\ hasNextPage' = hasNextPage
          /\ totalResults' = totalResults]_vars

\* C12: when a fetchData call with refresh = false and more = false has
\* reached its await, data is empty and isFetching is true, whatever data
\* held before the call.
C12_InitialLoadResets ==
  [][Started /\ ~NewLoad'.refresh /\ ~NewLoad'.more
       => data' = <<>> /\ isFetching']_vars

C12_Witness ==
  /\ last.op = "fetchData"
  /\ inflight # <<>>
  /\ ~NewLoad.refresh /\ ~NewLoad.more /\ NewLoad.data # <<>>
  /\ data = <<>> /\ isFetching

\* C13: fetchNextPage() changes no field and suspends no call when
\* hasNextPage is false; when hasNextPage is true it sets isFetchingMore and
\* leaves page and data alone, and the call it makes of serviceFn asks for
\* page + 1; when an append load settles, page becomes the page the load
\* asked for if it succeeded and stays as it was if it failed.
C13_FetchNextPage ==
  [][/\ last'.op = "fetchNextPage" /\ ~hasNextPage
          => fields' = fields /\ inflight' = inflight
     /\ last'.op = "fetchNextPage" /\ hasNextPage
          => /\ isFetchingMore' /\ page' = page /\ data' = data
             /\ props.serviceFn
                  => /\ Started
                     /\ NewLoad'.page = page + 1
                     /\ NewLoad'.more /\ ~NewLoad'.refresh
     /\ Settled' /\ inflight[last'.i].more
          => page' = IF Resolved' THEN inflight[last'.i].page ELSE page]_vars

C13_Witness ==
  /\ last.op = "fetchNextPage"
  /\ inflight # <<>>
  /\ NewLoad.more /\ NewLoad.page = page + 1
  /\ isFetchingMore /\ data # <<>>

C15_PageIsLastLoadedPage == inflight = <<>> => page = loadedPage

\* C16: actions.setData(d) changes data only: page, hasNextPage,
\* totalResults, error and the three loading flags are after the call what
\* they were before it, a load being in flight or not.
C16_SetDataOnlyData ==
  [][last'.op = "setData"
       => /\ <<page, hasNextPage, totalResults, error>>'
               = <<page, hasNextPage, totalResults, error>>
          /\ <<isFetching, isRefreshing, isFetchingMore>>'
               = <<isFetching, isRefreshing, isFetchingMore>>]_vars

\* C17: a handler that calls updateExistingData(id, newData) and nothing
\* else leaves the length and the order of data as they were; the first item
\* whose id is id takes the fields of newData and keeps its other fields,
\* every other item is unchanged (so data is unchanged when no item has the
\* id), and error is not touched.
C17_UpdateMergesFirstMatch ==
  [][(/\ last'.op = "mutate"
      /\ Len(last'.batch) = 1
      /\ last'.batch[1][1] = "updateExistingData")
       => LET id == last'.batch[1][2]
              patch == last'.batch[1][3]
              hits == {k \in 1..Len(data) : data[k].id = id}
          IN /\ Len(data') = Len(data)
             /\ \A k \in 1..Len(data) :
                  IF k \in hits /\ \A j \in hits : k <= j
                  THEN \A f \in {"id", "g"} :
                         data'[k][f] = IF f \in DOMAIN patch THEN patch[f] ELSE data[k][f]
                  ELSE data'[k] = data[k]
             /\ error' = error]_vars

C17_Witness ==
  /\ last.op = "mutate"
  /\ last.batch = << <<"updateExistingData", 1, [g |-> "b"]>> >>
  /\ data = <<[id |-> 1, g |-> "b"], [id |-> 1, g |-> "a"]>>

\* the list operations the mutations stand for, applied one after another:
\* prepend; merge into the first item with the id; rewrite one field of
\* every item whose matchKey field is matchId; drop every item with the id
RECURSIVE C20_Reference(_, _)
C20_Reference(list, batch) ==
  IF batch = <<>>
  THEN list
  ELSE LET c == Head(batch)
           hits == {k \in 1..Len(list) : list[k].id = c[2]}
           next ==
             CASE c[1] = "addNewData" -> <<c[2]>> \o list
               [] c[1] = "updateExistingData" ->
                    [k \in 1..Len(list) |->
                       IF k \in hits /\ \A j \in hits : k <= j
                       THEN [f \in {"id", "g"} |->
                               IF f \in DOMAIN c[3] THEN c[3][f] ELSE list[k][f]]
                       ELSE list[k]]
               [] c[1] = "updateExistingDataWithKey" ->
                    [k \in 1..Len(list) |->
                       IF list[k][c[2]] = c[3]
                       THEN [f \in {"id", "g"} |-> IF f = c[4] THEN c[5] ELSE list[k][f]]
                       ELSE list[k]]
               [] c[1] = "deleteExistingData" ->
                    SelectSeq(list, LAMBDA obj : obj.id # c[2])
       IN C20_Reference(next, Tail(batch))

\* C20: a handler that calls mutations one after another, no render in
\* between, leaves data equal to the list operations applied in that order
\* to the data it started from, and changes no other field.
C20_BatchEqualsReference ==
  [][last'.op = "mutate"
       => /\ data' = C20_Reference(data, last'.batch)
          /\ <<page, hasNextPage, totalResults, error>>'
               = <<page, hasNextPage, totalResults, error>>
          /\ <<isFetching, isRefreshing, isFetchingMore>>'
               = <<isFetching, isRefreshing, isFetchingMore>>]_vars

\* C18: with several loads in flight, the load whose awaited call resolves
\* applies its own result whatever the others did meanwhile and leaves the
\* others in flight: page becomes the page it asked for, hasNextPage what
\* its extractor reports, and data its new items alone (first page with an
\* extractor) or the data of the render that issued it followed by its new
\* items; so the load that resolves last decides the three fields, and a
\* load issued before a refresh and resolved after it overwrites the data
\* of the refresh with a list built on its own snapshot.
C18_LastResolvedWins ==
  [][Resolved'
       => LET load == inflight[last'.i]
          IN /\ Len(inflight') = Len(inflight) - 1
             /\ page' = load.page
             /\ props.dataExtractor => hasNextPage' = (TotalPages' > CurrentPage')
             /\ data' = IF props.dataExtractor /\ CurrentPage' <= 1
                        THEN NewData'
                        ELSE load.data \o NewData']_vars

\* the refresh issued second has resolved first; the append load issued
\* before it is still in flight with a snapshot that is not the data the
\* refresh installed
C18_Witness ==
  /\ Resolved
  /\ last.i = 2
  /\ Len(inflight) = 1
  /\ inflight[1].more
  /\ inflight[1].data # data

\* C19: error is null in every state with a load in flight and in every
\* state produced by the successful completion of a load.
C19_ErrorOnlyAfterFailure ==
  /\ inflight # <<>> => error = Null
  /\ Resolved => error = Null

\* C21: in every state with a load in flight, at least one of isFetching,
\* isRefreshing and isFetchingMore is true.
C21_InFlightShowsLoading ==
  inflight # <<>> => isFetching \/ isRefreshing \/ isFetchingMore

====
